---- MODULE Spec2Model ----
(***************************************************************************)
(* A model of src/src/ast.ts: the parser of one path portion of a glob     *)
(* into an AST of extglobs (fromGlob), toString, the pass that fills the   *)
(* negative extglobs with their tails (#fillNegs), the generation of the   *)
(* regular expression source (toRegExpSource, #parseGlob) and toMMPattern. *)
(*                                                                         *)
(* A JavaScript string is a sequence of one-character strings.  Positions  *)
(* in a string are 0-based, as in the source; charAt converts.  The AST    *)
(* objects live in a heap, a sequence of node records; an object is its    *)
(* index in the heap and the root is object 1.  A method is an operator    *)
(* from the state before it (the heap and the root's fields) to the state  *)
(* after it; where the source binds a value it uses several times, the     *)
(* operator hands it to a helper as an argument.                           *)
(***************************************************************************)
EXTENDS Integers, Sequences, FiniteSets

VARIABLES
    pattern,    \* the glob given to fromGlob
    options,    \* the root's #options
    heap,       \* the AST objects
    negs,       \* the root's #negs
    filledNegs, \* the root's #filledNegs
    calls,      \* how many times toRegExpSource() was called on the root
    last,       \* what the last call of toRegExpSource() on the root returned
    prev,       \* what the call before the last returned
    str,        \* what the last call of toString() on the root returned
    mm,         \* what the last call of toMMPattern() returned
    error,      \* the Error thrown by an operation, "none" when none was
    parsed,     \* history: the heap as fromGlob returned it
    pops        \* history: the iterations of the loop of #fillNegs

vars == <<pattern, options, heap, negs, filledNegs, calls, last, prev, str,
          mm, error, parsed, pops>>

----------------------------------------------------------------------------
(* Bounds of the model *)

\* the longest pattern drawn from Alphabet
MaxLen == 3
\* the most tokens of Tokens in a drawn pattern
MaxToks == 3
\* the calls of toRegExpSource() on one root
MaxCalls == 2
\* the longest path portion a regular expression is tried on
MaxSeg == 2

----------------------------------------------------------------------------
(* Strings *)

Root == 1

charAt(s, i) == IF i >= 0 /\ i < Len(s) THEN s[i + 1] ELSE ""

\* s.substring(from)
substring(s, from) == SubSeq(s, from + 1, Len(s))

\* s.startsWith(t)
startsWith(s, t) == Len(s) >= Len(t) /\ SubSeq(s, 1, Len(t)) = t

RECURSIVE joinNoSep(_, _)
\* a join that drops the separator
joinNoSep(ss, sep) ==
    IF ss = <<>> THEN <<>> ELSE ss[1] \o joinNoSep(Tail(ss), sep)

RECURSIVE join(_, _)
\* ss.join(sep), ss a sequence of strings
join(ss, sep) ==
    IF ss = <<>> THEN <<>>
    ELSE IF Len(ss) = 1 THEN ss[1]
    ELSE ss[1] \o sep \o join(Tail(ss), sep)

----------------------------------------------------------------------------
(* The constants of the source *)

types == {"!", "?", "+", "*", "@"}

isExtglobType(c) == c \in types

startNoTraversal ==
    <<"(", "?", "!", "\\", ".", "\\", ".", "?", "(", "?", ":", "$", "|", "/", ")", ")">>

startNoDot == <<"(", "?", "!", "\\", ".", ")">>

addPatternStart == {"[", "."}

justDots == {<<".", ".">>, <<".">>}

reSpecials == {"(", ")", ".", "*", "{", "}", "+", "?", "[", "]", "^", "$", "\\", "!"}

\* the characters of the class of regExpEscape, \s left out: the model
\* draws no white space
regExpEscapeSet ==
    {"-", "[", "]", "{", "}", "(", ")", "*", "+", "?", ".", ",", "\\", "^", "$", "|", "#"}

\* regExpEscape of one character
regExpEscape(c) == IF c \in regExpEscapeSet THEN <<"\\", c>> ELSE <<c>>

qmark == <<"[", "^", "/", "]">>

star == qmark \o <<"*", "?">>

starNoEmpty == qmark \o <<"+", "?">>

----------------------------------------------------------------------------
(* The AST objects *)

\* a part of an AST: a string or an AST
StrItem(s) == [k |-> "s", s |-> s, n |-> 0]

NodeItem(n) == [k |-> "n", s |-> <<>>, n |-> n]

\* type "" is the source's null; hasMagic is "U" (undefined), "T" or "F";
\* toStr.set is false while #toString is undefined.
\* pos, unfinished and src are history: the pos #parseAST was called with
\* for this object, whether that call ended in "unfinished extglob", and
\* the object this one is a clone of (0: none).
NewNode(type, parent, parentIndex) ==
    [type |-> type, parent |-> parent, parentIndex |-> parentIndex,
     parts |-> <<>>, hasMagic |-> IF type # "" THEN "T" ELSE "U",
     uflag |-> FALSE, toStr |-> [set |-> FALSE, s |-> <<>>],
     emptyExt |-> FALSE, pos |-> 0, unfinished |-> FALSE, src |-> 0]

\* The state the operations thread through: the heap, the root's fields,
\* the Error thrown if any, the value the last call returned (ret), the
\* count of #fillNegs iterations.
State(h, n, f, e, p) ==
    [heap |-> h, negs |-> n, filled |-> f, err |-> e, ret |-> 0, pops |-> p]

Throw(st, e) == IF st.err = "none" THEN [st EXCEPT !.err = e] ELSE st

\* new AST(type, parent): the new object is st.ret.  The root (parent 0)
\* is made by NewRoot.
AST(st, type, parent) ==
    LET id == Len(st.heap) + 1
        node == NewNode(type, parent, Len(st.heap[parent].parts))
    IN  [st EXCEPT !.heap = Append(@, node),
                   !.negs = IF type = "!" /\ ~st.filled THEN Append(@, id) ELSE @,
                   !.ret = id]

\* new AST(null, undefined, options)
NewRoot == State(<<NewNode("", 0, 0)>>, <<>>, FALSE, "none", 0)

\* this.push(p), for one part
push(st, this, p) ==
    IF p.k = "s" /\ p.s = <<>> THEN st
    ELSE IF p.k = "n" /\ st.heap[p.n].parent # this THEN Throw(st, "invalid part")
    ELSE [st EXCEPT !.heap[this].parts = Append(@, p)]

RECURSIVE pushAll(_, _, _)
\* this.push(...ps)
pushAll(st, this, ps) ==
    IF ps = <<>> THEN st
    ELSE pushAll(push(st, this, ps[1]), this, Tail(ps))

----------------------------------------------------------------------------
(* toString *)

RECURSIVE toStringOf(_, _)
\* what this.toString() returns in heap h
toStringOf(h, this) ==
    IF h[this].toStr.set THEN h[this].toStr.s
    ELSE LET ps == [i \in 1..Len(h[this].parts) |->
                       IF h[this].parts[i].k = "s" THEN h[this].parts[i].s
                       ELSE toStringOf(h, h[this].parts[i].n)]
         IN  IF h[this].type = "" THEN join(ps, <<>>)
             ELSE <<h[this].type, "(">> \o join(ps, <<"|">>) \o <<")">>

RECURSIVE toStringVisits(_, _)
\* the objects whose toString() a call of this.toString() runs past the
\* cache check: each of them sets its #toString
toStringVisits(h, this) ==
    IF h[this].toStr.set THEN {}
    ELSE {this} \cup
         UNION {toStringVisits(h, h[this].parts[i].n) :
                   i \in {j \in 1..Len(h[this].parts) : h[this].parts[j].k = "n"}}

\* the heap after this.toString()
toString(h, this) ==
    LET vs == toStringVisits(h, this)
    IN  [n \in 1..Len(h) |->
            IF n \in vs
            THEN [h[n] EXCEPT !.toStr = [set |-> TRUE, s |-> toStringOf(h, n)]]
            ELSE h[n]]

----------------------------------------------------------------------------
(* copyIn and clone *)

RECURSIVE copyIn(_, _, _)
RECURSIVE cloneParts(_, _, _, _)

\* this.clone(parent): the clone is st.ret
clone(st, this, parent) ==
    LET st1 == AST(st, st.heap[this].type, parent)
        c   == st1.ret
        o   == IF st.heap[this].src # 0 THEN st.heap[this].src ELSE this
        st2 == [st1 EXCEPT !.heap[c].src = o]
        st3 == cloneParts(st2, this, c, 1)
    IN  [st3 EXCEPT !.ret = c]

\* for (const p of this.#parts) c.copyIn(p), from the k-th part on
cloneParts(st, this, c, k) ==
    IF k > Len(st.heap[this].parts) THEN st
    ELSE cloneParts(copyIn(st, c, st.heap[this].parts[k]), this, c, k + 1)

\* this.copyIn(part)
copyIn(st, this, part) ==
    IF part.k = "s" THEN push(st, this, part)
    ELSE LET st1 == clone(st, part.n, this)
         IN  push(st1, this, NodeItem(st1.ret))

----------------------------------------------------------------------------
(* #parseAST *)

\* the locals of one call of #parseAST
Locals(i) ==
    [i |-> i, acc |-> <<>>, escaping |-> FALSE, inBrace |-> FALSE,
     braceStart |-> -1, braceNeg |-> FALSE]

\* The part of the loop body both loops of #parseAST share (escapes and
\* classes), for the character c read at L.i: the locals after it, and
\* whether it ended in `continue` (done).
scanChar(L, c) ==
    LET i     == L.i + 1
        taken == [L EXCEPT !.i = i, !.acc = @ \o <<c>>]
    IN  IF L.escaping \/ c = "\\"
        THEN [done |-> TRUE, L |-> [taken EXCEPT !.escaping = ~L.escaping]]
        ELSE IF L.inBrace
        THEN [done |-> TRUE,
              L |-> IF i = L.braceStart + 1
                    THEN [taken EXCEPT !.braceNeg = (c = "^" \/ c = "!") \/ @]
                    ELSE IF c = "]" /\ ~(i = L.braceStart + 2 /\ L.braceNeg)
                    THEN [taken EXCEPT !.inBrace = FALSE]
                    ELSE taken]
        ELSE IF c = "["
        THEN [done |-> TRUE,
              L |-> [taken EXCEPT !.inBrace = TRUE, !.braceStart = i,
                                  !.braceNeg = FALSE]]
        ELSE [done |-> FALSE, L |-> [L EXCEPT !.i = i]]

\* an extglob start that disregards noext
startsExtglobAnyway(opt, c, next) == isExtglobType(c) /\ next = "("

\* !opt.noext && isExtglobType(c) && str.charAt(i) === '('
startsExtglob(opt, c, next) == ~opt.noext /\ isExtglobType(c) /\ next = "("

RECURSIVE parseAST(_, _, _, _, _)
RECURSIVE parseOutside(_, _, _, _, _)
RECURSIVE parseExtglob(_, _, _, _, _, _, _, _)

\* the loop of #parseAST for ast.type === null; returns i in st.ret
parseOutside(s, st, ast, opt, L) ==
    IF ~(L.i < Len(s))
    THEN [push(st, ast, StrItem(L.acc)) EXCEPT !.ret = L.i]
    ELSE LET c  == charAt(s, L.i)
             sc == scanChar(L, c)
             i  == sc.L.i
         IN  IF sc.done THEN parseOutside(s, st, ast, opt, sc.L)
             ELSE IF startsExtglob(opt, c, charAt(s, i))
             THEN LET st1 == push(st, ast, StrItem(L.acc))
                      st2 == AST(st1, c, ast)
                      ext == st2.ret
                      st3 == parseAST(s, st2, ext, i, opt)
                      st4 == push(st3, ast, NodeItem(ext))
                  IN  parseOutside(s, st4, ast, opt,
                                   [sc.L EXCEPT !.i = st3.ret, !.acc = <<>>])
             ELSE parseOutside(s, st, ast, opt, [sc.L EXCEPT !.acc = @ \o <<c>>])

\* an end that keeps the text from the parenthesis on
unfinishedFromParen(s, st, ast, pos, i) ==
    [st EXCEPT !.heap[ast].type = "",
               !.heap[ast].hasMagic = "U",
               !.heap[ast].parts = <<StrItem(substring(s, pos))>>,
               !.heap[ast].unfinished = TRUE,
               !.ret = i]

\* an end that keeps the type of the extglob
unfinishedKeepType(s, st, ast, pos, i) ==
    [st EXCEPT !.heap[ast].parts = <<StrItem(substring(s, pos - 1))>>,
               !.heap[ast].unfinished = TRUE,
               !.ret = i]

\* the `unfinished extglob` end of #parseAST
unfinishedExtglob(s, st, ast, pos, i) ==
    [st EXCEPT !.heap[ast].type = "",
               !.heap[ast].hasMagic = "U",
               !.heap[ast].parts = <<StrItem(substring(s, pos - 1))>>,
               !.heap[ast].unfinished = TRUE,
               !.ret = i]

\* the loop of #parseAST for an extglob: part is the current branch and
\* parts the branches before it; returns i in st.ret
parseExtglob(s, st, ast, pos, opt, part, parts, L) ==
    IF ~(L.i < Len(s))
    THEN unfinishedExtglob(s, st, ast, pos, L.i)
    ELSE LET c  == charAt(s, L.i)
             sc == scanChar(L, c)
             i  == sc.L.i
         IN  IF sc.done THEN parseExtglob(s, st, ast, pos, opt, part, parts, sc.L)
             ELSE IF isExtglobType(c) /\ charAt(s, i) = "("
             THEN LET st1 == push(st, part, StrItem(L.acc))
                      st2 == AST(st1, c, part)
                      ext == st2.ret
                      st3 == push(st2, part, NodeItem(ext))
                      st4 == parseAST(s, st3, ext, i, opt)
                  IN  parseExtglob(s, st4, ast, pos, opt, part, parts,
                                   [sc.L EXCEPT !.i = st4.ret, !.acc = <<>>])
             ELSE IF c = "|"
             THEN LET st1 == push(st, part, StrItem(L.acc))
                      st2 == AST(st1, "", ast)
                  IN  parseExtglob(s, st2, ast, pos, opt, st2.ret,
                                   Append(parts, NodeItem(part)),
                                   [sc.L EXCEPT !.acc = <<>>])
             ELSE IF c = ")"
             THEN LET empty == L.acc = <<>> /\ Len(st.heap[ast].parts) = 0
                      st1 == [st EXCEPT !.heap[ast].emptyExt = empty \/ @]
                      st2 == push(st1, part, StrItem(L.acc))
                      st3 == pushAll(st2, ast, Append(parts, NodeItem(part)))
                  IN  [st3 EXCEPT !.ret = i]
             ELSE parseExtglob(s, st, ast, pos, opt, part, parts,
                               [sc.L EXCEPT !.acc = @ \o <<c>>])

\* AST.#parseAST(str, ast, pos, opt); returns i in st.ret
parseAST(s, st, ast, pos, opt) ==
    LET st0 == [st EXCEPT !.heap[ast].pos = pos]
    IN  IF st0.heap[ast].type = ""
        THEN parseOutside(s, st0, ast, opt, Locals(pos))
        ELSE LET st1 == AST(st0, "", ast)
             IN  parseExtglob(s, st1, ast, pos, opt, st1.ret, <<>>, Locals(pos + 1))

\* AST.fromGlob(pattern, options)
fromGlob(p, opt) == parseAST(p, NewRoot, Root, 0, opt)

----------------------------------------------------------------------------
(* #fillNegs *)

RECURSIVE copyToBranches(_, _, _, _)
\* for (const part of n.#parts) part.copyIn(what), from the k-th part on
copyToBranches(st, n, what, k) ==
    IF k > Len(st.heap[n].parts) THEN st
    ELSE LET part == st.heap[n].parts[k]
         IN  IF part.k = "s" THEN Throw(st, "string part in extglob AST??")
             ELSE copyToBranches(copyIn(st, part.n, what), n, what, k + 1)

RECURSIVE copyTail(_, _, _, _)
\* the for loop over i of #fillNegs: the parts of pp from position i on
copyTail(st, n, pp, i) ==
    IF st.heap[pp].type = "" /\ i < Len(st.heap[pp].parts) /\ st.err = "none"
    THEN copyTail(copyToBranches(st, n, st.heap[pp].parts[i + 1], 1), n, pp, i + 1)
    ELSE st

RECURSIVE walkUpStops(_, _, _, _)
\* a walk that stops at the first ancestor that is an extglob
walkUpStops(st, n, p, pp) ==
    IF pp = 0 \/ st.err # "none" \/ st.heap[pp].type # "" THEN st
    ELSE walkUpStops(copyTail(st, n, pp, st.heap[p].parentIndex + 1),
                     n, pp, st.heap[pp].parent)

RECURSIVE walkUp(_, _, _, _)
\* the while (pp) loop of #fillNegs
walkUp(st, n, p, pp) ==
    IF pp = 0 \/ st.err # "none" THEN st
    ELSE walkUp(copyTail(st, n, pp, st.heap[p].parentIndex + 1),
                n, pp, st.heap[pp].parent)

RECURSIVE popNegs(_)
\* the while ((n = this.#negs.pop())) loop of #fillNegs
popNegs(st) ==
    IF st.negs = <<>> \/ st.err # "none" THEN st
    ELSE LET n   == st.negs[Len(st.negs)]
             st1 == [st EXCEPT !.negs = SubSeq(@, 1, Len(@) - 1), !.pops = @ + 1]
         IN  IF st1.heap[n].type # "!" THEN popNegs(st1)
             ELSE popNegs(walkUp(st1, n, n, st1.heap[n].parent))

\* this.#fillNegs()
fillNegs(st, this) ==
    IF this # Root THEN Throw(st, "should only call on root")
    ELSE IF st.filled THEN st
    ELSE popNegs([st EXCEPT !.heap = toString(@, this), !.filled = TRUE])

----------------------------------------------------------------------------
(* isStart and isEnd *)

RECURSIVE isStart(_, _)
isStart(h, this) ==
    IF this = Root THEN TRUE
    ELSE IF ~isStart(h, h[this].parent) THEN FALSE
    ELSE IF h[this].parentIndex = 0 THEN TRUE
    ELSE LET p == h[this].parent
         IN  \A i \in 0..(h[this].parentIndex - 1) :
                /\ i < Len(h[p].parts)
                /\ h[p].parts[i + 1].k = "n"
                /\ h[h[p].parts[i + 1].n].type = "!"

RECURSIVE isEnd(_, _)
isEnd(h, this) ==
    IF this = Root THEN TRUE
    ELSE IF h[h[this].parent].type = "!" THEN TRUE
    ELSE IF ~isEnd(h, h[this].parent) THEN FALSE
    ELSE IF h[this].type = "" THEN isEnd(h, h[this].parent)
    ELSE h[this].parentIndex = Len(h[h[this].parent].parts) - 1

----------------------------------------------------------------------------
(* The collaborators of ast.ts: unescape.js and brace-expressions.js *)

\* unescape(s): the backslash escapes removed, a backslash before a slash
\* or at the end kept.  A backslash is removed when the scan from the left
\* reaches it, which is when the backslashes right before it are even in
\* number, and a character other than a slash follows it.
unescape(s) ==
    LET run(i) ==
            IF i = 1 \/ s[i - 1] # "\\" THEN 0
            ELSE LET b == CHOOSE j \in 0..(i - 1) :
                              /\ j = 0 \/ s[j] # "\\"
                              /\ \A m \in (j + 1)..(i - 1) : s[m] = "\\"
                 IN  i - 1 - b
        removed(i) ==
            /\ s[i] = "\\"
            /\ i < Len(s)
            /\ s[i + 1] # "/"
            /\ run(i) % 2 = 0
        kept == SelectSeq([i \in 1..Len(s) |-> i], LAMBDA i : ~removed(i))
    IN  [n \in 1..Len(kept) |-> s[kept[n]]]

\* what the class parser escapes inside a class
braceEscape(c) == IF c \in {"[", "]", "\\", "-"} THEN <<"\\", c>> ELSE <<c>>

RECURSIVE classMembers(_, _, _, _, _)
\* the members of the class whose text starts at position i of glob:
\* end is the position after the closing bracket, 0 when there is none
classMembers(glob, i, sawStart, escaping, ranges) ==
    IF ~(i < Len(glob)) THEN [end |-> 0, ranges |-> ranges]
    ELSE LET c == charAt(glob, i)
         IN  IF c = "]" /\ sawStart /\ ~escaping
             THEN [end |-> i + 1, ranges |-> ranges]
             ELSE IF c = "\\" /\ ~escaping
             THEN classMembers(glob, i + 1, TRUE, TRUE, ranges)
             ELSE classMembers(glob, i + 1, TRUE, FALSE, Append(ranges, braceEscape(c)))

\* parseClass(glob, pos): [src, uflag, consumed, magic]; consumed is 0
\* when the text at pos is no class
parseClass(glob, pos) ==
    LET negate == charAt(glob, pos + 1) \in {"!", "^"}
        m      == classMembers(glob, IF negate THEN pos + 2 ELSE pos + 1,
                               FALSE, FALSE, <<>>)
    IN  IF m.end = 0
        THEN [src |-> <<>>, uflag |-> FALSE, consumed |-> 0, magic |-> FALSE]
        ELSE IF Len(m.ranges) = 1 /\ ~negate
        THEN [src |-> regExpEscape(m.ranges[1][Len(m.ranges[1])]), uflag |-> FALSE,
              consumed |-> m.end - pos, magic |-> FALSE]
        ELSE [src |-> <<"[">> \o (IF negate THEN <<"^">> ELSE <<>>)
                      \o join(m.ranges, <<>>) \o <<"]">>,
              uflag |-> FALSE, consumed |-> m.end - pos, magic |-> TRUE]

----------------------------------------------------------------------------
(* #parseGlob *)

RECURSIVE parseGlobLoop(_, _, _)
\* the for loop of #parseGlob; G holds its locals
parseGlobLoop(glob, noEmpty, G) ==
    IF ~(G.i < Len(glob)) THEN G
    ELSE LET c    == charAt(glob, G.i)
             next == [G EXCEPT !.i = @ + 1]
             cls  == parseClass(glob, G.i)
         IN  IF G.escaping
             THEN parseGlobLoop(glob, noEmpty,
                      [next EXCEPT !.escaping = FALSE,
                                   !.re = @ \o (IF c \in reSpecials
                                                THEN <<"\\", c>> ELSE <<c>>)])
             ELSE IF c = "\\"
             THEN parseGlobLoop(glob, noEmpty,
                      IF G.i = Len(glob) - 1
                      THEN [next EXCEPT !.re = @ \o <<"\\", "\\">>]
                      ELSE [next EXCEPT !.escaping = TRUE])
             ELSE IF c = "[" /\ cls.consumed # 0
             THEN parseGlobLoop(glob, noEmpty,
                      [G EXCEPT !.re = @ \o cls.src,
                                !.uflag = @ \/ cls.uflag,
                                !.i = @ + cls.consumed,
                                !.hasMagic = @ \/ cls.magic])
             ELSE IF c = "*"
             THEN parseGlobLoop(glob, noEmpty,
                      [next EXCEPT !.re = @ \o (IF noEmpty /\ glob = <<"*">>
                                                THEN starNoEmpty ELSE star),
                                   !.hasMagic = TRUE])
             ELSE IF c = "?"
             THEN parseGlobLoop(glob, noEmpty,
                      [next EXCEPT !.re = @ \o qmark, !.hasMagic = TRUE])
             ELSE parseGlobLoop(glob, noEmpty,
                      [next EXCEPT !.re = @ \o regExpEscape(c)])

\* AST.#parseGlob(glob, hasMagic, noEmpty): <<re, body, hasMagic, uflag>>;
\* hasMagic is the caller's #hasMagic, "U", "T" or "F"
parseGlob(glob, hasMagic, noEmpty) ==
    LET G == parseGlobLoop(glob, noEmpty,
                 [i |-> 0, escaping |-> FALSE, re |-> <<>>, uflag |-> FALSE,
                  hasMagic |-> (hasMagic = "T")])
    IN  <<G.re, unescape(glob), G.hasMagic, G.uflag>>

----------------------------------------------------------------------------
(* toRegExpSource *)

\* what a call returns: the state after it and the tuple
\* <<re, body, hasMagic, uflag>>
Returned(st, t) == [st |-> st, t |-> t]

NoTuple == <<<<>>, <<>>, FALSE, FALSE>>

\* the start of a literal AST whose regular expression so far is src
startOf(h, this, opt, src) ==
    IF ~isStart(h, this) THEN <<>>
    ELSE IF ~(Len(h[this].parts) > 0 /\ h[this].parts[1].k = "s") THEN <<>>
    ELSE LET dotTravAllowed ==
                 Len(h[this].parts) = 1 /\ h[this].parts[1].s \in justDots
             aps == addPatternStart
             needNoTrav ==
                 \/ opt.dot /\ charAt(src, 0) \in aps
                 \/ startsWith(src, <<"\\", ".">>) /\ charAt(src, 2) \in aps
                 \/ startsWith(src, <<"\\", ".", "\\", ".">>) /\ charAt(src, 4) \in aps
             needNoDot == ~opt.dot /\ charAt(src, 0) \in aps
         IN  IF dotTravAllowed THEN <<>>
             ELSE IF needNoTrav THEN startNoTraversal
             ELSE IF needNoDot THEN startNoDot
             ELSE <<>>

\* no end of path portion
endOfNone(h, filled, this) == <<>>

\* the "end of path portion" pattern of a negation tail
endOf(h, filled, this) ==
    IF isEnd(h, this) /\ filled /\ this # Root /\ h[h[this].parent].type = "!"
    THEN <<"(", "?", ":", "$", "|", "\\", "/", ")">>
    ELSE <<>>

\* the close of an extglob that is not an empty !()
closeOf(h, this, opt) ==
    IF h[this].type = "!"
    THEN <<")", ")">> \o (IF isStart(h, this) /\ ~opt.dot THEN startNoDot ELSE <<>>)
         \o star \o <<")">>
    ELSE IF h[this].type = "@" THEN <<")">>
    ELSE <<")", h[this].type>>

RECURSIVE toRegExpSource(_, _, _)
RECURSIVE mapLiteral(_, _, _, _, _, _)
RECURSIVE mapExtglob(_, _, _, _, _)

\* this.#hasMagic = this.#hasMagic || hasMagic; this.#uflag = this.#uflag || uflag
noteMagic(st, this, hasMagic, uflag) ==
    [st EXCEPT !.heap[this].hasMagic = IF @ = "T" \/ hasMagic THEN "T" ELSE "F",
               !.heap[this].uflag = @ \/ uflag]

\* the rest of the map over the parts of a literal AST, r being what the
\* k-th part gave
mapLiteralNext(r, this, opt, noEmpty, k, src) ==
    mapLiteral(noteMagic(r.st, this, r.t[3], r.t[4]), this, opt, noEmpty,
               k + 1, src \o r.t[1])

\* the map over the parts of a literal AST, from the k-th part on:
\* src is the concatenation of their re so far
mapLiteral(st, this, opt, noEmpty, k, src) ==
    IF k > Len(st.heap[this].parts) \/ st.err # "none" THEN Returned(st, src)
    ELSE mapLiteralNext(
             IF st.heap[this].parts[k].k = "s"
             THEN Returned(st, parseGlob(st.heap[this].parts[k].s,
                                         st.heap[this].hasMagic, noEmpty))
             ELSE toRegExpSource(st, st.heap[this].parts[k].n, opt),
             this, opt, noEmpty, k, src)

\* the rest of the map over the parts of an extglob, r being what the
\* k-th part gave
mapExtglobNext(r, this, opt, k, res) ==
    mapExtglob([r.st EXCEPT !.heap[this].uflag = @ \/ r.t[4]], this, opt,
               k + 1, Append(res, r.t[1]))

\* the map over the parts of an extglob, from the k-th part on: res is
\* the sequence of their re so far
mapExtglob(st, this, opt, k, res) ==
    IF k > Len(st.heap[this].parts) \/ st.err # "none" THEN Returned(st, res)
    ELSE IF st.heap[this].parts[k].k = "s"
    THEN Returned(Throw(st, "string type in extglob ast??"), res)
    ELSE mapExtglobNext(toRegExpSource(st, st.heap[this].parts[k].n, opt),
                        this, opt, k, res)

\* what toRegExpSource() of an AST with no type returns, m being the map
\* over its parts
literalResult(m, this, opt) ==
    Returned([m.st EXCEPT !.heap[this].hasMagic = IF @ = "T" THEN "T" ELSE "F"],
             <<startOf(m.st.heap, this, opt, m.t) \o m.t
                   \o endOf(m.st.heap, m.st.filled, this),
               unescape(m.t),
               m.st.heap[this].hasMagic = "T",
               m.st.heap[this].uflag>>)

\* toRegExpSource() of an AST with no type
literalSource(st, this, opt) ==
    literalResult(
        mapLiteral(st, this, opt, isStart(st.heap, this) /\ isEnd(st.heap, this),
                   1, <<>>),
        this, opt)

\* the downgrade of an invalid extglob to its text, h being the heap after
\* this.toString()
invalidExtglob(st, this, h) ==
    Returned([st EXCEPT !.heap = [h EXCEPT ![this].parts = <<StrItem(h[this].toStr.s)>>,
                                           ![this].type = "",
                                           ![this].hasMagic = "U"]],
             <<h[this].toStr.s, unescape(h[this].toStr.s), FALSE, FALSE>>)

\* the regular expression of an extglob whose branches joined are body
extglobFinal(h, this, opt, body) ==
    IF h[this].type = "!" /\ h[this].emptyExt
    THEN (IF isStart(h, this) /\ ~opt.dot THEN startNoDot ELSE <<>>)
         \o starNoEmpty
    ELSE (IF h[this].type = "!"
          THEN <<"(", "?", ":", "(", "?", "!", "(", "?", ":">>
          ELSE <<"(", "?", ":">>)
         \o body \o closeOf(h, this, opt)

\* what toRegExpSource() of an extglob returns, st being the state after
\* the map over its parts and body their re filtered and joined
extglobResult(st, this, opt, body) ==
    IF st.err # "none" THEN Returned(st, NoTuple)
    ELSE IF isStart(st.heap, this) /\ isEnd(st.heap, this) /\ body = <<>>
            /\ st.heap[this].type # "!"
    THEN invalidExtglob(st, this, toString(st.heap, this))
    ELSE Returned([st EXCEPT !.heap[this].hasMagic = IF @ = "T" THEN "T" ELSE "F"],
                  <<extglobFinal(st.heap, this, opt, body), unescape(body),
                    st.heap[this].hasMagic = "T", st.heap[this].uflag>>)

\* .filter(p => !(this.isStart() && this.isEnd()) || !!p).join('|')
extglobBody(h, this, res) ==
    IF isStart(h, this) /\ isEnd(h, this)
    THEN join(SelectSeq(res, LAMBDA re : re # <<>>), <<"|">>)
    ELSE join(res, <<"|">>)

\* the end of toRegExpSource() of an extglob, m being the map over its parts
extglobMapped(m, this, opt) ==
    extglobResult(m.st, this, opt, extglobBody(m.st.heap, this, m.t))

\* toRegExpSource() of an extglob
extglobSource(st, this, opt) ==
    extglobMapped(mapExtglob(st, this, opt, 1, <<>>), this, opt)

\* this.toRegExpSource(), st being the state after #fillNegs if this is
\* the root
toRegExpSourceFilled(st, this, opt) ==
    IF st.err # "none" THEN Returned(st, NoTuple)
    ELSE IF st.heap[this].type = "" THEN literalSource(st, this, opt)
    ELSE extglobSource(st, this, opt)

\* this.toRegExpSource()
toRegExpSource(st, this, opt) ==
    toRegExpSourceFilled(IF this = Root THEN fillNegs(st, this) ELSE st, this, opt)

----------------------------------------------------------------------------
(* toMMPattern *)

Letters ==
    {"a", "b", "c", "d", "e", "f", "g", "h", "i", "j", "k", "l", "m", "n", "o",
     "p", "q", "r", "s", "t", "u", "v", "w", "x", "y", "z"}

\* glob.toUpperCase() !== glob.toLowerCase(), for the characters drawn
hasCase(glob) == \E i \in 1..Len(glob) : glob[i] \in Letters

\* what toMMPattern returns: the string body, or the RegExp of source
\* ^re$ with its flags and its _src and _glob
MMString(body) ==
    [kind |-> "string", s |-> body, flags |-> <<>>, src |-> <<>>, glob |-> <<>>]

MMRegExp(re, flags, glob) ==
    [kind |-> "regexp", s |-> <<"^">> \o re \o <<"$">>, flags |-> flags,
     src |-> re, glob |-> glob]

\* the flags of the RegExp: (nocase ? 'i' : '') + (uflag ? 'u' : '')
flagsOf(opt, uflag) ==
    (IF opt.nocase THEN <<"i">> ELSE <<>>) \o (IF uflag THEN <<"u">> ELSE <<>>)

\* what toMMPattern() returns, glob being this.toString() and r what
\* this.toRegExpSource() returned: the state, the tuple (t) and the value (v)
patternOf(glob, r, opt) ==
    [st |-> r.st, t |-> r.t,
     v |-> IF \/ r.t[3]
              \/ r.st.heap[Root].hasMagic = "T"
              \/ opt.nocase /\ ~opt.nocaseMagicOnly /\ hasCase(glob)
           THEN MMRegExp(r.t[1], flagsOf(opt, r.t[4]), glob)
           ELSE MMString(r.t[2])]

\* toMMPattern(), h being the heap after this.toString()
toMMPatternOf(st, opt, h) ==
    patternOf(h[Root].toStr.s, toRegExpSource([st EXCEPT !.heap = h], Root, opt), opt)

\* this.toMMPattern() on the root
toMMPattern(st, opt) == toMMPatternOf(st, opt, toString(st.heap, Root))

----------------------------------------------------------------------------
(* new RegExp(source): which strings a regular expression matches *)

(* The matcher reads the source from position j (1-based) with the set P  *)
(* of positions of the subject s that the match may have reached, and     *)
(* returns the position after what it read, the positions reached and     *)
(* whether what it read is well formed.  Greedy and lazy quantifiers      *)
(* reach the same positions.                                              *)
Matched(j, P, ok) == [j |-> j, P |-> P, ok |-> ok]

reAt(re, j) == IF j >= 1 /\ j <= Len(re) THEN re[j] ELSE ""

RECURSIVE classEnd(_, _)
\* the position of the bracket that closes the class whose members start at j
classEnd(re, j) ==
    IF j > Len(re) THEN j
    ELSE IF re[j] = "]" THEN j
    ELSE IF re[j] = "\\" THEN classEnd(re, j + 2)
    ELSE classEnd(re, j + 1)

RECURSIVE classChars(_, _, _)
\* the characters listed between positions j and e of a class
classChars(re, j, e) ==
    IF j >= e THEN {}
    ELSE IF re[j] = "\\" THEN {reAt(re, j + 1)} \cup classChars(re, j + 2, e)
    ELSE {re[j]} \cup classChars(re, j + 1, e)

\* the positions after one character of s, taken at a position of P, that
\* is in cs (not in cs when neg)
stepOver(s, P, cs, neg) ==
    {p + 1 : p \in {q \in P : q <= Len(s) /\ ((s[q] \in cs) # neg)}}

RECURSIVE matchAlt(_, _, _, _)
RECURSIVE matchSeq(_, _, _, _)
RECURSIVE matchBase(_, _, _, _)
RECURSIVE matchClosure(_, _, _, _)

\* r then r2, both to be well formed
thenMatched(r, r2) == Matched(r2.j, r2.P, r.ok /\ r2.ok)

\* r or r2, both to be well formed
orMatched(r, r2) == Matched(r2.j, r.P \cup r2.P, r.ok /\ r2.ok)

\* the alternatives after the alternative that gave r
altRest(re, s, P, r) ==
    IF reAt(re, r.j) = "|" THEN orMatched(r, matchAlt(re, r.j + 1, s, P)) ELSE r

\* a disjunction, up to its closing parenthesis or the end
matchAlt(re, j, s, P) == altRest(re, s, P, matchSeq(re, j, s, P))

\* the position after the quantifier at j, lazy or not
afterQuantifier(re, j) == IF reAt(re, j + 1) = "?" THEN j + 2 ELSE j + 1

\* the positions reached by zero or more repetitions of the atom at j
\* from P, Q being P and what one more repetition reaches
closureStep(re, j, s, P, Q) == IF Q = P THEN P ELSE matchClosure(re, j, s, Q)

matchClosure(re, j, s, P) ==
    closureStep(re, j, s, P, P \cup matchBase(re, j, s, P).P)

\* the atom at j with its quantifier, b being the atom matched once
quantified(re, j, s, P, b) ==
    IF reAt(re, b.j) = "*"
    THEN Matched(afterQuantifier(re, b.j), matchClosure(re, j, s, P), b.ok)
    ELSE IF reAt(re, b.j) = "+"
    THEN Matched(afterQuantifier(re, b.j), matchClosure(re, j, s, b.P), b.ok)
    ELSE IF reAt(re, b.j) = "?"
    THEN Matched(afterQuantifier(re, b.j), P \cup b.P, b.ok)
    ELSE b

\* an atom and its quantifier
matchAtom(re, j, s, P) == quantified(re, j, s, P, matchBase(re, j, s, P))

\* the atoms after the atom that gave a
seqRest(re, s, a) == thenMatched(a, matchSeq(re, a.j, s, a.P))

\* an alternative: a sequence of quantified atoms
matchSeq(re, j, s, P) ==
    IF j > Len(re) \/ re[j] \in {"|", ")"} THEN Matched(j, P, TRUE)
    ELSE seqRest(re, s, matchAtom(re, j, s, P))

\* a group, r being its disjunction matched
closeGroup(re, r) == Matched(r.j + 1, r.P, r.ok /\ reAt(re, r.j) = ")")

\* a negative lookahead whose disjunction starts at j: the positions of P
\* the disjunction matches from are dropped
lookahead(re, j, s, P) ==
    closeGroup(re, Matched(matchAlt(re, j, s, P).j,
                           {p \in P : matchAlt(re, j, s, {p}).P = {}},
                           matchAlt(re, j, s, P).ok))

\* a class whose members start at from and end before e
matchClass(re, s, P, neg, from, e) ==
    Matched(e + 1,
            stepOver(s, P, classChars(re, from, e), neg),
            e <= Len(re))

\* an atom without its quantifier
matchBase(re, j, s, P) ==
    IF re[j] = "(" /\ reAt(re, j + 1) = "?" /\ reAt(re, j + 2) = "!"
    THEN lookahead(re, j + 3, s, P)
    ELSE IF re[j] = "(" /\ reAt(re, j + 1) = "?" /\ reAt(re, j + 2) = ":"
    THEN closeGroup(re, matchAlt(re, j + 3, s, P))
    ELSE IF re[j] = "("
    THEN closeGroup(re, matchAlt(re, j + 1, s, P))
    ELSE IF re[j] = "[" /\ reAt(re, j + 1) = "^"
    THEN matchClass(re, s, P, TRUE, j + 2, classEnd(re, j + 2))
    ELSE IF re[j] = "["
    THEN matchClass(re, s, P, FALSE, j + 1, classEnd(re, j + 1))
    ELSE IF re[j] = "\\"
    THEN Matched(j + 2, stepOver(s, P, {reAt(re, j + 1)}, FALSE), j + 1 <= Len(re))
    ELSE IF re[j] = "$" THEN Matched(j + 1, P \cap {Len(s) + 1}, TRUE)
    ELSE IF re[j] = "^" THEN Matched(j + 1, P \cap {1}, TRUE)
    ELSE IF re[j] = "." THEN Matched(j + 1, stepOver(s, P, {}, TRUE), TRUE)
    ELSE IF re[j] \in {"*", "+", "?"} THEN Matched(j + 1, {}, FALSE)
    ELSE Matched(j + 1, stepOver(s, P, {re[j]}, FALSE), TRUE)

\* whether r is a match of the whole of source
wholeMatch(source, r) == r.ok /\ r.j = Len(source) + 1 /\ r.P # {}

\* new RegExp(source).test(s), for a source with no flags
regExpTest(source, s) ==
    wholeMatch(source, matchAlt(source, 1, s, 1..(Len(s) + 1)))

----------------------------------------------------------------------------
(* The inputs *)

\* the characters the drawn patterns are made of
Alphabet == {"a", "!", "(", ")", "|", "*", "\\", "[", "]"}

\* the strings over cs of length 0..n
Strings(cs, n) == UNION {[1..k -> cs] : k \in 0..n}

\* the tokens the longer drawn patterns are made of
Tokens == {<<"!", "(">>, <<"@", "(">>, <<")">>, <<"a">>, <<"|">>}

\* the tokens of the patterns the regular expressions are tried for
DotTokens == {<<"?", "(">>, <<"*", "(">>, <<"a", ")">>, <<"*">>, <<"?">>}

RECURSIVE flatten(_)
flatten(ss) == IF ss = <<>> THEN <<>> ELSE ss[1] \o flatten(Tail(ss))

TokenStrings(toks) == {flatten(ts) : ts \in Strings(toks, MaxToks)}

\* the patterns of the comments of ast.ts and of its documentation
Seeds ==
    {<<"a", "@", "(", "i", "|", "w", "!", "(", "x", "|", "y", ")", "z", "|", "j", ")", "b">>,
     <<"!", "(", "f", "o", "o", ")">>,
     <<"!", "(", "a", ")">>,
     <<"?", "(", "a", ")", "*">>,
     <<"*", "(", "a", ")", "?">>,
     <<"+", "(", "*", "|", ".", "x", "*", ")">>,
     <<"@", "(", "!", "(", "a", ")", "b", ")", "c">>,
     <<"!", "(", "a", ")", "!", "(", "b", ")", "c">>,
     <<"\\", "!", "(", "[", "!", "]", ")", "]", "a">>,
     <<"!", "(", "@", "(", "a">>,
     <<"!", "(", "a", "|", ")">>,
     <<"!", "(", "@", "(", "a", ")", ")">>,
     <<"*", "@", "(", "a", ")">>,
     <<"!", "(", "a", ")", "*">>,
     <<".", "*">>}

Patterns == Strings(Alphabet, MaxLen) \cup TokenStrings(Tokens)

Options ==
    [dot : BOOLEAN, noext : BOOLEAN, nocase : BOOLEAN, nocaseMagicOnly : BOOLEAN]

\* the options that reach the parser and toRegExpSource()
CoreOptions == {o \in Options : ~o.nocase /\ ~o.nocaseMagicOnly}

\* the path portions the regular expressions are tried on
Segments == Strings({".", "a"}, MaxSeg)

----------------------------------------------------------------------------
(* The operations *)

NoString == [set |-> FALSE, s |-> <<>>]

NoResult == [set |-> FALSE, t |-> NoTuple]

NoPattern == [set |-> FALSE, v |-> MMString(<<>>)]

\* the state the operations start from
Current == State(heap, negs, filledNegs, error, pops)

\* the state before fromGlob
Fresh ==
    /\ heap = <<>>
    /\ negs = <<>>
    /\ filledNegs = FALSE
    /\ calls = 0
    /\ last = NoResult
    /\ prev = NoResult
    /\ str = NoString
    /\ mm = NoPattern
    /\ error = "none"
    /\ parsed = <<>>
    /\ pops = 0

Init ==
    /\ \/ pattern \in Seeds /\ options \in Options
       \/ pattern \in Patterns /\ options \in CoreOptions
    /\ Fresh

\* the start of the runs that try the regular expressions
InitDot ==
    /\ pattern \in TokenStrings(DotTokens)
    /\ options \in CoreOptions
    /\ Fresh

\* the fields of the objects become those of st
Store(st) ==
    /\ heap' = st.heap
    /\ negs' = st.negs
    /\ filledNegs' = st.filled
    /\ error' = st.err
    /\ pops' = st.pops

\* ast = AST.fromGlob(pattern, options)
CallFromGlob ==
    /\ heap = <<>>
    /\ Store(fromGlob(pattern, options))
    /\ parsed' = heap'
    /\ UNCHANGED <<pattern, options, calls, last, prev, str, mm>>

\* ast.toString()
CallToString ==
    /\ heap # <<>>
    /\ error = "none"
    /\ ~str.set
    /\ heap' = toString(heap, Root)
    /\ str' = [set |-> TRUE, s |-> toStringOf(heap, Root)]
    /\ UNCHANGED <<pattern, options, negs, filledNegs, calls, last, prev, mm,
                   error, parsed, pops>>

\* the call returned r
ReturnedTuple(r) ==
    /\ Store(r.st)
    /\ last' = [set |-> TRUE, t |-> r.t]
    /\ prev' = last
    /\ calls' = calls + 1

\* ast.toRegExpSource()
CallToRegExpSource ==
    /\ heap # <<>>
    /\ error = "none"
    /\ calls < MaxCalls
    /\ ReturnedTuple(toRegExpSource(Current, Root, options))
    /\ UNCHANGED <<pattern, options, str, mm, parsed>>

\* the call returned r
ReturnedPattern(r) ==
    /\ ReturnedTuple(r)
    /\ mm' = [set |-> TRUE, v |-> r.v]

\* ast.toMMPattern()
CallToMMPattern ==
    /\ heap # <<>>
    /\ error = "none"
    /\ ~mm.set
    /\ calls < MaxCalls
    /\ ReturnedPattern(toMMPattern(Current, options))
    /\ UNCHANGED <<pattern, options, str, parsed>>

Next ==
    \/ CallFromGlob
    \/ CallToString
    \/ CallToRegExpSource
    \/ CallToMMPattern

Spec == Init /\ [][Next]_vars

SpecDot == InitDot /\ [][Next]_vars

----------------------------------------------------------------------------
(* The properties *)

\* the objects of heap h
Objects(h) == 1..Len(h)

RECURSIVE Tree(_, _)
\* the tree under object n of heap h: its type and its parts, a string
\* part being a leaf
Tree(h, n) ==
    [k |-> "n", s |-> <<>>, type |-> h[n].type,
     parts |-> [i \in 1..Len(h[n].parts) |->
                   IF h[n].parts[i].k = "s"
                   THEN [k |-> "s", s |-> h[n].parts[i].s, type |-> "",
                         parts |-> <<>>]
                   ELSE Tree(h, h[n].parts[i].n)]]

RECURSIVE Under(_, _)
\* the objects of the tree under object n of heap h
Under(h, n) ==
    {n} \cup UNION {Under(h, h[n].parts[i].n) :
                       i \in {j \in 1..Len(h[n].parts) : h[n].parts[j].k = "n"}}

\* whether character c occurs in string p
Has(p, c) == \E i \in 1..Len(p) : p[i] = c

\* the objects the parser left as unfinished extglobs
Unfinished == {n \in Objects(parsed) : parsed[n].unfinished}

\* C1: toString() of the parsed pattern re-parses to the same tree, and is
\* the pattern itself, byte for byte, when no extglob of the pattern is
\* unterminated.
RoundTrip ==
    str.set =>
        /\ Tree(fromGlob(str.s, options).heap, Root) = Tree(parsed, Root)
        /\ Unfinished = {} => str.s = pattern

\* C1 witness: toString() was called after the negations were filled, on a
\* pattern with a negation and an empty branch
RoundTripHappens ==
    /\ str.set
    /\ calls > 0
    /\ str.s = pattern
    /\ Has(pattern, "|")
    /\ \E n \in Objects(parsed) :
          /\ parsed[n].type = "!"
          /\ \E i \in 1..Len(parsed[n].parts) :
                parsed[parsed[n].parts[i].n].parts = <<>>

\* C2 (as stated): two successive calls of toRegExpSource() on one root
\* return equal tuples.
Pure == calls >= 2 => last.t = prev.t

\* C3: no assertion is raised, and a call of toRegExpSource() returns its
\* tuple after the loop of #fillNegs ran once for each negation the parser
\* registered and emptied the list, however many `!` objects it cloned.
Total ==
    /\ error = "none"
    /\ calls > 0 =>
          /\ last.set
          /\ Len(last.t) = 4
          /\ filledNegs
          /\ negs = <<>>
          /\ pops = Len(fromGlob(pattern, options).negs)

\* C3 witness: the loop ran twice or more and cloned a `!` object
TotalHappens ==
    /\ calls > 0
    /\ error = "none"
    /\ pops >= 2
    /\ \E n \in Objects(heap) : n > Len(parsed) /\ heap[n].type = "!"

\* the path portions that begin with a dot
DotSegments == {s \in Segments : s # <<>> /\ s[1] = "."}

\* C4 (as stated): with dot unset, the regular expression toMMPattern()
\* makes of a pattern that does not begin with a dot matches no path
\* portion that begins with a dot.
NoDotMatch ==
    (/\ mm.set
     /\ mm.v.kind = "regexp"
     /\ ~options.dot
     /\ ~startsWith(pattern, <<".">>))
        => \A s \in DotSegments : ~regExpTest(mm.v.s, s)

\* what #parseGlob makes of a pattern with no class and no escape when
\* every character but the wildcards in wild is a literal
Compiled(p, wild) ==
    flatten([i \in 1..Len(p) |->
                IF p[i] = "*" /\ "*" \in wild
                THEN (IF p = <<"*">> THEN starNoEmpty ELSE star)
                ELSE IF p[i] = "?" /\ "?" \in wild THEN qmark
                ELSE IF p[i] \in {"(", ")", "|", "+", "*", "?", ".", "]", "{", "}",
                                  "^", "$", "-", ",", "#"}
                THEN <<"\\", p[i]>>
                ELSE <<p[i]>>])

\* s.endsWith(t)
endsWith(s, t) == Len(s) >= Len(t) /\ SubSeq(s, Len(s) - Len(t) + 1, Len(s)) = t

\* with noext the tree is the root with string parts only, and no negation
\* is registered
NoExtTree ==
    options.noext /\ heap # <<>> =>
        /\ Len(heap) = 1
        /\ heap[Root].type = ""
        /\ \A i \in 1..Len(heap[Root].parts) : heap[Root].parts[i].k = "s"
        /\ negs = <<>>

\* the pattern !(a)
NotA == <<"!", "(", "a", ")">>

\* C5 (as stated): with noext no extglob is made, every operator
\* character and parenthesis is compiled as a literal, and the facade
\* returns the string !(a) for the pattern !(a).
NoExtLiteral ==
    options.noext =>
        /\ NoExtTree
        /\ (last.set /\ ~Has(pattern, "[") /\ ~Has(pattern, "\\")) =>
              endsWith(last.t[1], Compiled(pattern, {}))
        /\ (mm.set /\ pattern = NotA) => mm.v = MMString(NotA)

\* C5 (amended): with noext no extglob is made; !, +, @, | and the
\* parentheses are compiled as literals while * and ? stay wildcards, magic
\* exactly when the pattern has one; the facade returns the string !(a) for
\* the pattern !(a) unless nocase (without nocaseMagicOnly) makes it a
\* regular expression.
NoExtWildcards ==
    options.noext =>
        /\ NoExtTree
        /\ (last.set /\ ~Has(pattern, "[") /\ ~Has(pattern, "\\")) =>
              /\ endsWith(last.t[1], Compiled(pattern, {"*", "?"}))
              /\ last.t[3] = (Has(pattern, "*") \/ Has(pattern, "?"))
        /\ (mm.set /\ pattern = NotA) =>
              IF options.nocase /\ ~options.nocaseMagicOnly
              THEN mm.v.kind = "regexp"
                   /\ mm.v.s = <<"^", "!", "\\", "(", "a", "\\", ")", "$">>
              ELSE mm.v = MMString(NotA)

\* C5 witness: the facade returned the string !(a) under noext
NoExtHappens ==
    /\ options.noext
    /\ pattern = NotA
    /\ mm.set
    /\ mm.v = MMString(NotA)
    /\ last.t[1] = <<"!", "\\", "(", "a", "\\", ")">>

\* C6: an extglob the parser left unfinished has no type and one part, the
\* text of the pattern from its operator character on, and stays so through
\* #fillNegs and toRegExpSource().
Unterminated ==
    \A n \in Unfinished :
        /\ charAt(pattern, parsed[n].pos - 1) \in types
        /\ charAt(pattern, parsed[n].pos) = "("
        /\ heap[n].type = ""
        /\ heap[n].parts = <<StrItem(substring(pattern, parsed[n].pos - 1))>>
        /\ \A i \in 1..Len(negs) : negs[i] # n \/ ~filledNegs

\* C6 witness: an extglob made as `!` inside another extglob was left
\* unfinished and #fillNegs has run
UnterminatedHappens ==
    /\ calls > 0
    /\ \E n \in Unfinished :
          /\ charAt(pattern, parsed[n].pos - 1) = "!"
          /\ parsed[n].parent # Root

\* the pattern !(foo)
NotFoo == <<"!", "(", "f", "o", "o", ")">>

\* C7 (as stated): for !(foo) with dot unset the facade makes the regular
\* expression ^(?:(?!(?:foo))(?!\.)[^/]*?)$
NotFooBare ==
    (pattern = NotFoo /\ ~options.dot /\ ~options.noext /\ mm.set) =>
        /\ mm.v.kind = "regexp"
        /\ mm.v.s = <<"^", "(", "?", ":", "(", "?", "!", "(", "?", ":", "f", "o", "o",
                      ")", ")", "(", "?", "!", "\\", ".", ")",
                      "[", "^", "/", "]", "*", "?", ")", "$">>

\* C7 (amended): for !(foo) with dot unset the facade makes the regular
\* expression ^(?:(?!(?:foo(?:$|\/)))(?!\.)[^/]*?)$ : the end of path
\* portion follows the branch text inside the lookahead.
NotFooAnchored ==
    (pattern = NotFoo /\ ~options.dot /\ ~options.noext /\ mm.set) =>
        /\ mm.v.kind = "regexp"
        /\ mm.v.s = <<"^", "(", "?", ":", "(", "?", "!", "(", "?", ":", "f", "o", "o",
                      "(", "?", ":", "$", "|", "\\", "/", ")",
                      ")", ")", "(", "?", "!", "\\", ".", ")",
                      "[", "^", "/", "]", "*", "?", ")", "$">>

\* C7 witness: the facade was called for !(foo) with dot unset
NotFooHappens ==
    pattern = NotFoo /\ ~options.dot /\ ~options.noext /\ mm.set

RECURSIVE TailOf(_, _, _)
\* what follows object p in the literals above it in heap h, nearest
\* first: up to the root, or up to the first extglob above p when stops
TailOf(h, p, stops) ==
    IF h[p].parent = 0 THEN <<>>
    ELSE IF h[h[p].parent].type # ""
    THEN (IF stops THEN <<>> ELSE TailOf(h, h[p].parent, stops))
    ELSE SubSeq(h[h[p].parent].parts, h[p].parentIndex + 2,
                Len(h[h[p].parent].parts))
         \o TailOf(h, h[p].parent, stops)

\* the parts #fillNegs added to branch b, an AST part given as the object
\* it is a clone of
Added(b) ==
    [i \in 1..(Len(heap[b].parts) - Len(parsed[b].parts)) |->
        LET part == heap[b].parts[Len(parsed[b].parts) + i]
        IN  IF part.k = "s" THEN part ELSE NodeItem(heap[part.n].src)]

\* the negations #fillNegs filled: the `!` objects the parser made
Negations == {n \in Objects(parsed) : parsed[n].type = "!"}

\* every branch of every negation holds what it held, then copies of the
\* tail of the negation
Spliced(stops) ==
    calls > 0 =>
        \A n \in Negations :
            \A i \in 1..Len(heap[n].parts) :
                /\ heap[n].parts[i] = parsed[n].parts[i]
                /\ SubSeq(heap[heap[n].parts[i].n].parts, 1,
                          Len(parsed[heap[n].parts[i].n].parts))
                       = parsed[heap[n].parts[i].n].parts
                /\ Added(heap[n].parts[i].n) = TailOf(parsed, n, stops)

\* C8 (as stated): the walk up from a negation stops at the first ancestor
\* that is an extglob, so its branches get copies only of what follows it
\* below that extglob.
SpliceStops == Spliced(TRUE)

\* C8 (amended): the walk up from a negation goes on to the root and skips
\* only the ancestors that are extglobs, so its branches get copies of what
\* follows it in every literal above it, those outside its enclosing
\* extglob included (the trailing b of a@(i|w!(x|y)z|j)b is copied into
\* !(x|y)).
SpliceToRoot == Spliced(FALSE)

\* C8 witness: #fillNegs filled a negation that has something following
\* its enclosing extglob
SpliceHappens ==
    /\ calls > 0
    /\ \E n \in Negations :
          /\ TailOf(parsed, n, FALSE) # TailOf(parsed, n, TRUE)
          /\ \E i \in 1..Len(heap[n].parts) :
                Len(Added(heap[n].parts[i].n)) >= 2

\* C9 (as stated): every object that is a part of its parent is the part
\* at its #parentIndex.
ParentIndex ==
    \A n \in Objects(heap) :
        (/\ heap[n].parent # 0
         /\ \E i \in 1..Len(heap[heap[n].parent].parts) :
               heap[heap[n].parent].parts[i] = NodeItem(n))
            => /\ heap[n].parentIndex < Len(heap[heap[n].parent].parts)
               /\ heap[heap[n].parent].parts[heap[n].parentIndex + 1] = NodeItem(n)

\* C10 (as stated): in the tree under the root no object with no type has
\* a part with no type, and every part of an extglob is an object with no
\* type.
Containment ==
    heap # <<>> =>
        \A n \in Under(heap, Root) :
            \A i \in 1..Len(heap[n].parts) :
                IF heap[n].type = ""
                THEN heap[n].parts[i].k = "n" => heap[heap[n].parts[i].n].type # ""
                ELSE heap[n].parts[i].k = "n" /\ heap[heap[n].parts[i].n].type = ""

\* the `!` objects the parser marked #emptyExt
EmptyNegations == {n \in Negations : parsed[n].emptyExt}

\* the text of the pattern is one `!` extglob and nothing else
OneNegation ==
    /\ Len(parsed) >= 2
    /\ parsed[Root].parts = <<NodeItem(2)>>
    /\ parsed[2].type = "!"

\* C11 (as stated): the parser marks an extglob #emptyExt only when it has
\* one branch and that branch has no part, and a pattern that is one `!`
\* extglob is compiled to starNoEmpty (after startNoDot when dot is unset)
\* only when it is !().
EmptyExt ==
    /\ \A n \in Objects(parsed) :
          parsed[n].emptyExt =>
              /\ Len(parsed[n].parts) = 1
              /\ parsed[parsed[n].parts[1].n].parts = <<>>
    /\ (last.set /\ OneNegation
          /\ last.t[1] = (IF options.dot THEN <<>> ELSE startNoDot) \o starNoEmpty)
            => pattern = <<"!", "(", ")">>

\* s.includes(t)
includes(s, t) ==
    \E i \in 0..(Len(s) - Len(t)) : SubSeq(s, i + 1, i + Len(t)) = t

\* C12 (as stated): in a pattern with no class, no escape and no empty
\* negation, the regular expression toRegExpSource() returns holds
\* starNoEmpty only when the pattern is exactly *.
StarLowering ==
    (/\ last.set
     /\ ~Has(pattern, "[")
     /\ ~Has(pattern, "\\")
     /\ EmptyNegations = {})
        => (includes(last.t[1], starNoEmpty) => pattern = <<"*">>)

====
